---- MODULE Spec2Model ----

(***************************************************************************)
(* Library catalogue of src/main.py: class Book (to_dict, from_dict,       *)
(* validate_dict) and class Library (load_books, _save_books, add_book,    *)
(* delete_book, find_book_by_id, update_status) over a JSON data file.     *)
(*                                                                         *)
(* Text is a sequence of one-character strings.  A Python value is a       *)
(* record [t, i, s] (type name, integer payload, text payload); a JSON     *)
(* value is a record [j, i, s] (JSON kind, integer payload, text payload). *)
(* json.dump and json.load convert between the two.                        *)
(***************************************************************************)
EXTENDS Integers, Sequences, FiniteSets, TLC

VARIABLES
    file,         \* content of the data file (self.data_file on disk)
    constructed,  \* TRUE while the program holds a Library object: from an
                  \* __init__ that returned to the first exception a method
                  \* lets through (main catches none of them and ends there)
    books,        \* self.books, a sequence of Book objects
    last,         \* the last call: operation, arguments, outcome, result
                  \* (book: the Book made, removed, updated or found; found:
                  \* the list returned or displayed)
    pre,          \* self.books and the file as they were before the last call
    deleted,      \* ids of the records delete_book has removed from this object
    addRun        \* ids returned by the add_book calls since the last other call

vars == <<file, constructed, books, last, pre, deleted, addRun>>

(***************************************************************************)
(* Bounds of the model.                                                    *)
(***************************************************************************)
MaxBooks == 2        \* add_book is not called on a collection of this size
MaxEntries == 2      \* longest array in a data file load_books is studied on

(***************************************************************************)
(* Python values.                                                          *)
(***************************************************************************)
PyInt(n) == [t |-> "int", i |-> n, s |-> <<>>]
PyBool(b) == [t |-> "bool", i |-> IF b THEN 1 ELSE 0, s |-> <<>>]
PyFloat(n) == [t |-> "float", i |-> n, s |-> <<>>]    \* the float n + 0.5
PyStr(cs) == [t |-> "str", i |-> 0, s |-> cs]
PyNone == [t |-> "NoneType", i |-> 0, s |-> <<>>]

\* a key that a dict does not hold
PyAbsent == [t |-> "absent", i |-> 0, s |-> <<>>]

\* isinstance(v, int): bool is a subclass of int
IsInstanceInt(v) == v.t \in {"int", "bool"}

\* isinstance(v, str)
IsInstanceStr(v) == v.t = "str"

\* a == b for two Python values: numbers compare by value across int, bool
\* and float, strings by content, None only equals None
PyEq(a, b) ==
    IF a.t \in {"int", "bool"} /\ b.t \in {"int", "bool"} THEN a.i = b.i
    ELSE IF a.t = "float" /\ b.t = "float" THEN a.i = b.i
    ELSE IF a.t = "str" /\ b.t = "str" THEN a.s = b.s
    ELSE a.t = "NoneType" /\ b.t = "NoneType"

(***************************************************************************)
(* JSON values and the json module.                                        *)
(***************************************************************************)
JNumber(n) == [j |-> "number", i |-> n, s |-> <<>>]
JReal(n) == [j |-> "real", i |-> n, s |-> <<>>]        \* the literal n.5
JBoolean(b) == [j |-> "boolean", i |-> IF b THEN 1 ELSE 0, s |-> <<>>]
JString(cs) == [j |-> "string", i |-> 0, s |-> cs]
JNull == [j |-> "null", i |-> 0, s |-> <<>>]
JAbsent == [j |-> "absent", i |-> 0, s |-> <<>>]

\* json.load on a scalar
JsonDecodeScalar(v) ==
    CASE v.j = "number" -> PyInt(v.i)
      [] v.j = "real" -> PyFloat(v.i)
      [] v.j = "boolean" -> PyBool(v.i = 1)
      [] v.j = "string" -> PyStr(v.s)
      [] v.j = "null" -> PyNone
      [] OTHER -> PyAbsent

\* json.dump on a scalar
JsonEncodeScalar(v) ==
    CASE v.t = "int" -> JNumber(v.i)
      [] v.t = "float" -> JReal(v.i)
      [] v.t = "bool" -> JBoolean(v.i = 1)
      [] v.t = "str" -> JString(v.s)
      [] v.t = "NoneType" -> JNull
      [] OTHER -> JAbsent

\* the keys a JSON object or a Python dict of the model may hold
Keys == {"id", "title", "author", "year", "status", "note"}

EmptyPyDict == [k \in Keys |-> PyAbsent]
EmptyJObject == [k \in Keys |-> JAbsent]

\* one element of the top-level array of the file: a JSON value of any kind.
\* d holds the members of an object, l the (string) elements of an array.
JEntry(kind, n, cs, items, members) ==
    [j |-> kind, i |-> n, s |-> cs, l |-> items, d |-> members]
JObject(members) == JEntry("object", 0, <<>>, <<>>, members)

\* the Python value json.load makes of one element
PyEntry(kind, n, cs, items, members) ==
    [t |-> kind, i |-> n, s |-> cs, l |-> items, d |-> members]

JsonDecodeEntry(e) ==
    CASE e.j = "object" ->
            PyEntry("dict", 0, <<>>, <<>>, [k \in Keys |-> JsonDecodeScalar(e.d[k])])
      [] e.j = "array" -> PyEntry("list", 0, <<>>, e.l, EmptyPyDict)
      [] OTHER ->
            LET v == JsonDecodeScalar([j |-> e.j, i |-> e.i, s |-> e.s])
            IN  PyEntry(v.t, v.i, v.s, <<>>, EmptyPyDict)

(***************************************************************************)
(* class Book                                                              *)
(***************************************************************************)
AVAILABLE == <<"v", " ", "n", "a", "l", "i", "c", "h", "i", "i">>   \* "в наличии"
CHECKED_OUT == <<"v", "y", "d", "a", "n", "a">>                     \* "выдана"

\* Book.__init__
Book(book_id, title, author, year, status) ==
    [id |-> book_id, title |-> title, author |-> author, year |-> year,
     status |-> status]

\* to_dict without the "status" key
to_dict_without_status(book) ==
    [k \in Keys |->
        CASE k = "id" -> book.id
          [] k = "title" -> book.title
          [] k = "author" -> book.author
          [] k = "year" -> book.year
          [] OTHER -> PyAbsent]

\* Book.to_dict
to_dict(book) ==
    [k \in Keys |->
        CASE k = "id" -> book.id
          [] k = "title" -> book.title
          [] k = "author" -> book.author
          [] k = "year" -> book.year
          [] k = "status" -> book.status
          [] OTHER -> PyAbsent]

\* Book.from_dict
from_dict(data) ==
    Book(data.d["id"], data.d["title"], data.d["author"], data.d["year"],
         data.d["status"])

\* the text of a key
KeyText(k) ==
    CASE k = "id" -> <<"i", "d">>
      [] k = "title" -> <<"t", "i", "t", "l", "e">>
      [] k = "author" -> <<"a", "u", "t", "h", "o", "r">>
      [] k = "year" -> <<"y", "e", "a", "r">>
      [] k = "status" -> <<"s", "t", "a", "t", "u", "s">>
      [] OTHER -> <<"n", "o", "t", "e">>

\* sub in text, for two str
IsSubstring(sub, text) ==
    \E k \in 0..(Len(text) - Len(sub)) :
        \A n \in 1..Len(sub) : text[k + n] = sub[n]

\* `field in data` of validate_dict: "yes", "no", or "TypeError" where the
\* operand does not support the test
Contains(data, field) ==
    CASE data.t = "dict" -> IF data.d[field].t # "absent" THEN "yes" ELSE "no"
      [] data.t = "str" -> IF IsSubstring(KeyText(field), data.s) THEN "yes" ELSE "no"
      [] data.t = "list" ->
            IF \E n \in 1..Len(data.l) : data.l[n] = KeyText(field) THEN "yes" ELSE "no"
      [] OTHER -> "TypeError"

\* required_fields of validate_dict, in the order of the dict literal
required_fields == <<"id", "title", "author", "year", "status">>
required_type(field) == IF field \in {"id", "year"} THEN "int" ELSE "str"
valid_statuses == {AVAILABLE, CHECKED_OUT}

\* the for loop of validate_dict from the n-th required field on: "pass" when
\* no field made it return, "False" on the first missing or wrongly typed
\* field, "TypeError" where `in` or the subscript raises
RECURSIVE CheckFields(_, _)
CheckFields(data, n) ==
    IF n > Len(required_fields) THEN "pass"
    ELSE LET field == required_fields[n]
             has == Contains(data, field)
         IN  IF has = "TypeError" THEN "TypeError"
             ELSE IF has = "no" THEN "False"
             \* data[field]: str and list take no str subscript
             ELSE IF data.t # "dict" THEN "TypeError"
             ELSE IF ~(IF required_type(field) = "int"
                       THEN IsInstanceInt(data.d[field])
                       ELSE IsInstanceStr(data.d[field])) THEN "False"
             ELSE CheckFields(data, n + 1)

\* validate_dict without the test of the status against valid_statuses
validate_dict_any_status(data) ==
    LET loop == CheckFields(data, 1)
    IN  IF loop # "pass" THEN loop ELSE "True"

\* Book.validate_dict: "True", "False" or "TypeError"
validate_dict(data) ==
    LET loop == CheckFields(data, 1)
    IN  IF loop # "pass" THEN loop
        ELSE IF data.d["status"].s \notin valid_statuses THEN "False"
        ELSE "True"

(***************************************************************************)
(* The data file.  kind is "missing" (no such file), "nonutf8" (bytes that *)
(* are not UTF-8), "notjson" (text that is not a JSON document, such as an *)
(* empty or truncated file) or "json"; doc is the JSON document: an array  *)
(* (items), an object (its keys, in order), a string (s) or another scalar.*)
(***************************************************************************)
JDoc(kind, n, cs, keys, items) ==
    [j |-> kind, i |-> n, s |-> cs, keys |-> keys, items |-> items]
NoDoc == JDoc("none", 0, <<>>, <<>>, <<>>)
JArray(items) == JDoc("array", 0, <<>>, <<>>, items)

File(kind, doc) == [kind |-> kind, doc |-> doc]
MissingFile == File("missing", NoDoc)
JsonFile(doc) == File("json", doc)

\* a str as an element of the iteration
PyStrEntry(cs) == PyEntry("str", 0, cs, <<>>, EmptyPyDict)

\* `for raw_book in data` of load_books: the elements the loop visits, or
\* TypeError where data is not iterable.  Iterating a dict yields its keys,
\* iterating a str its characters.
Iterate(doc) ==
    CASE doc.j = "array" ->
            [raised |-> "", elems |-> [n \in 1..Len(doc.items) |-> JsonDecodeEntry(doc.items[n])]]
      [] doc.j = "object" ->
            [raised |-> "", elems |-> [n \in 1..Len(doc.keys) |-> PyStrEntry(doc.keys[n])]]
      [] doc.j = "string" ->
            [raised |-> "", elems |-> [n \in 1..Len(doc.s) |-> PyStrEntry(<<doc.s[n]>>)]]
      [] OTHER -> [raised |-> "TypeError", elems |-> <<>>]

\* the body of the for loop of load_books from the n-th element on, acc the
\* books appended so far; an exception of validate_dict leaves the loop
RECURSIVE LoadLoop(_, _, _)
LoadLoop(elems, n, acc) ==
    IF n > Len(elems) THEN [raised |-> "", books |-> acc]
    ELSE LET valid == validate_dict(elems[n])
         IN  IF valid = "TypeError" THEN [raised |-> "TypeError", books |-> <<>>]
             ELSE IF valid = "True"
                  THEN LoadLoop(elems, n + 1, Append(acc, from_dict(elems[n])))
                  ELSE LoadLoop(elems, n + 1, acc)

\* Library.load_books on file content f: the list it returns, or the
\* exception it lets through (FileNotFoundError and json.JSONDecodeError are
\* caught and give [])
load_books(f) ==
    CASE f.kind = "missing" -> [raised |-> "", books |-> <<>>]
      [] f.kind = "notjson" -> [raised |-> "", books |-> <<>>]
      [] f.kind = "nonutf8" -> [raised |-> "UnicodeDecodeError", books |-> <<>>]
      [] OTHER ->
            LET it == Iterate(f.doc)
            IN  IF it.raised # "" THEN [raised |-> it.raised, books |-> <<>>]
                ELSE LoadLoop(it.elems, 1, <<>>)

\* json.dump([book.to_dict() for book in self.books]): the document written
Serialize(bs) ==
    JArray([n \in 1..Len(bs) |->
                JObject([k \in Keys |-> JsonEncodeScalar(to_dict(bs[n])[k])])])

\* what the environment does to a write: it succeeds, open() fails, or the
\* write fails after open() has truncated the file
IoOutcomes == {"ok", "open_fails", "write_fails"}

\* _save_books that leaves alone a file load_books could not read
save_books_file_keeping_unparseable(bs, f, io) ==
    CASE io = "ok" /\ f.kind = "json" /\ f.doc.j = "array"
                /\ Len(f.doc.items) = Len(load_books(f).books) -> JsonFile(Serialize(bs))
      [] io = "ok" -> f
      [] io = "open_fails" -> f
      [] OTHER -> File("notjson", NoDoc)

\* Library._save_books with self.books = bs on a file holding f, under io:
\* the content of the file afterwards
save_books_file(bs, f, io) ==
    CASE io = "ok" -> JsonFile(Serialize(bs))
      [] io = "open_fails" -> f
      [] OTHER -> File("notjson", NoDoc)

\* "" when _save_books returns, the exception it raises otherwise
save_books_raised(io) == IF io = "ok" THEN "" ELSE "OSError"

(***************************************************************************)
(* class Library                                                           *)
(***************************************************************************)
MaxOf(S) == LET x == CHOOSE y \in S : \A z \in S : z <= y IN x

\* len(self.books) + 1 in place of the maximum id + 1
next_id_by_count(bs) == PyInt(Len(bs) + 1)

\* the maximum id without the + 1
next_id_without_increment(bs) ==
    IF Len(bs) = 0 THEN PyInt(0)
    ELSE PyInt(MaxOf({bs[n].id.i : n \in 1..Len(bs)}))

\* max([book.id for book in self.books], default=0) + 1 of add_book
next_id(bs) ==
    IF Len(bs) = 0 THEN PyInt(0 + 1)
    ELSE PyInt(MaxOf({bs[n].id.i : n \in 1..Len(bs)}) + 1)

\* the first book of the list, whatever its id
find_book_by_id_unfiltered(bs, book_id) == IF Len(bs) > 0 THEN 1 ELSE 0

\* Library.find_book_by_id: the position of the first book whose id equals
\* book_id, 0 for None
find_book_by_id(bs, book_id) ==
    IF \E n \in 1..Len(bs) : PyEq(bs[n].id, PyInt(book_id))
    THEN CHOOSE n \in 1..Len(bs) :
            /\ PyEq(bs[n].id, PyInt(book_id))
            /\ \A m \in 1..(n - 1) : ~PyEq(bs[m].id, PyInt(book_id))
    ELSE 0

\* self.books.remove(book) for the book at position n
remove(bs, n) == [m \in 1..(Len(bs) - 1) |-> IF m < n THEN bs[m] ELSE bs[m + 1]]

\* the new status given to every book of the list
set_status_of_all(bs, n, new_status) ==
    [m \in 1..Len(bs) |-> [bs[m] EXCEPT !.status = PyStr(new_status)]]

\* book.status = new_status for the book at position n
set_status(bs, n, new_status) == [bs EXCEPT ![n].status = PyStr(new_status)]

\* update_status without the test of new_status
status_permitted_always(new_status) == TRUE

\* `new_status in ["в наличии", "выдана"]` of update_status
status_permitted(new_status) == new_status \in {AVAILABLE, CHECKED_OUT}

NoBook == Book(PyNone, PyNone, PyNone, PyNone, PyNone)

\* the books argument of find_books and display_books: None, or a list
NoList == [given |-> FALSE, list |-> <<>>]
GivenList(bs) == [given |-> TRUE, list |-> bs]

Call(op, book_id, new_status, book, outcome) ==
    [op |-> op, book_id |-> book_id, new_status |-> new_status, book |-> book,
     outcome |-> outcome,
     title |-> <<>>, author |-> <<>>, year |-> 0,      \* arguments of add_book
     keyword |-> <<>>,                                 \* argument of search_books
     arg |-> NoList,                                   \* argument of find_books, display_books
     found |-> <<>>]

Outcome(raised) == IF raised = "" THEN "ok" ELSE raised

\* Library.__init__: self.books = self.load_books().  An exception of
\* load_books leaves no Library object.
Construct ==
    LET r == load_books(file)
    IN  /\ constructed' = (r.raised = "")
        /\ books' = r.books
        /\ file' = file
        /\ last' = Call("__init__", 0, <<>>, NoBook, Outcome(r.raised))

\* add_book that writes the file before it appends the book: a write that
\* fails leaves self.books as it was
AddBookAfterWrite(title, author, year, io) ==
    /\ constructed
    /\ Len(books) < MaxBooks
    /\ LET new_book == Book(next_id(books), PyStr(title), PyStr(author),
                            PyInt(year), PyStr(AVAILABLE))
           raised == save_books_raised(io)
       IN  /\ books' = IF raised = "" THEN Append(books, new_book) ELSE books
           /\ file' = save_books_file(Append(books, new_book), file, io)
           /\ last' = [Call("add_book", 0, <<>>, new_book, Outcome(raised))
                        EXCEPT !.title = title, !.author = author, !.year = year]
           /\ constructed' = (raised = "")

\* Library.add_book(title, author, year), the write ending as io
AddBook(title, author, year, io) ==
    /\ constructed
    /\ Len(books) < MaxBooks
    /\ LET new_book == Book(next_id(books), PyStr(title), PyStr(author),
                            PyInt(year), PyStr(AVAILABLE))
           raised == save_books_raised(io)
       IN  /\ books' = Append(books, new_book)
           /\ file' = save_books_file(books', file, io)
           /\ last' = [Call("add_book", 0, <<>>, new_book, Outcome(raised))
                        EXCEPT !.title = title, !.author = author, !.year = year]
           /\ constructed' = (raised = "")

\* Library.delete_book(book_id)
DeleteBook(book_id, io) ==
    /\ constructed
    /\ LET n == find_book_by_id(books, book_id)
       IN  IF n # 0
           THEN /\ books' = remove(books, n)
                /\ file' = save_books_file(books', file, io)
                /\ last' = Call("delete_book", book_id, <<>>, books[n],
                                Outcome(save_books_raised(io)))
                /\ constructed' = (save_books_raised(io) = "")
           ELSE /\ last' = Call("delete_book", book_id, <<>>, NoBook, "not_found")
                /\ UNCHANGED <<books, file, constructed>>

\* Library.update_status(book_id, new_status)
UpdateStatus(book_id, new_status, io) ==
    /\ constructed
    /\ LET n == find_book_by_id(books, book_id)
       IN  IF n # 0
           THEN IF status_permitted(new_status)
                THEN /\ books' = set_status(books, n, new_status)
                     /\ file' = save_books_file(books', file, io)
                     /\ last' = Call("update_status", book_id, new_status, books'[n],
                                     Outcome(save_books_raised(io)))
                     /\ constructed' = (save_books_raised(io) = "")
                ELSE /\ last' = Call("update_status", book_id, new_status, books[n],
                                     "invalid_status")
                     /\ UNCHANGED <<books, file, constructed>>
           ELSE /\ last' = Call("update_status", book_id, new_status, NoBook,
                                "not_found")
                /\ UNCHANGED <<books, file, constructed>>

\* str.lower() of one character
LowerChar(c) ==
    CASE c = "A" -> "a"
      [] c = "B" -> "b"
      [] c = "C" -> "c"
      [] c = "Z" -> "z"
      [] OTHER -> c

\* str.lower()
Lower(text) == [n \in 1..Len(text) |-> LowerChar(text[n])]

Digit(n) == <<"0", "1", "2", "3", "4", "5", "6", "7", "8", "9">>[n + 1]

\* str(n) for an int n >= 0
RECURSIVE DigitsOf(_)
DigitsOf(n) == IF n < 10 THEN <<Digit(n)>> ELSE Append(DigitsOf(n \div 10), Digit(n % 10))

\* str(v) for an int or a bool
PyStrOf(v) ==
    IF v.t = "bool" THEN (IF v.i = 1 THEN <<"T", "r", "u", "e">> ELSE <<"F", "a", "l", "s", "e">>)
    ELSE IF v.i < 0 THEN <<"-">> \o DigitsOf(0 - v.i)
    ELSE DigitsOf(v.i)

\* the condition of the list comprehension of search_books without .lower()
\* on the keyword
search_matches_keyword_as_typed(book, keyword) ==
    \/ IsSubstring(keyword, Lower(book.title.s))
    \/ IsSubstring(keyword, Lower(book.author.s))
    \/ PyStrOf(book.year) = keyword

\* the condition of the list comprehension of search_books
search_matches(book, keyword) ==
    \/ IsSubstring(Lower(keyword), Lower(book.title.s))
    \/ IsSubstring(Lower(keyword), Lower(book.author.s))
    \/ PyStrOf(book.year) = keyword

\* results of search_books: the books of bs that match, in the order of bs
RECURSIVE search_results(_, _)
search_results(bs, keyword) ==
    IF bs = <<>> THEN <<>>
    ELSE IF search_matches(Head(bs), keyword)
         THEN <<Head(bs)>> \o search_results(Tail(bs), keyword)
         ELSE search_results(Tail(bs), keyword)

\* `books or self.books`: None and the empty list are false
books_or_self(arg, bs) == IF arg.given /\ arg.list # <<>> THEN arg.list ELSE bs

\* find_books that takes the argument alone, without `or self.books`
find_books_of_argument(bs, arg) ==
    IF ~arg.given \/ arg.list = <<>> THEN [none |-> TRUE, list |-> <<>>]
    ELSE [none |-> FALSE, list |-> arg.list]

\* Library.find_books: None, or the list it returns
find_books(bs, arg) ==
    LET chosen == books_or_self(arg, bs)
    IN  IF chosen = <<>> THEN [none |-> TRUE, list |-> <<>>]
        ELSE [none |-> FALSE, list |-> chosen]

\* Library.display_books: what it prints, the "library is empty" line or one
\* line for each book of the list
display_books(bs, arg) ==
    LET chosen == books_or_self(arg, bs)
    IN  IF chosen = <<>> THEN [outcome |-> "library_empty", shown |-> <<>>]
        ELSE [outcome |-> "displayed", shown |-> chosen]

\* Library.find_book_by_id(book_id) called by a client
FindBookById(book_id) ==
    /\ constructed
    /\ LET n == find_book_by_id(books, book_id)
       IN  last' = IF n # 0 THEN Call("find_book_by_id", book_id, <<>>, books[n], "ok")
                   ELSE Call("find_book_by_id", book_id, <<>>, NoBook, "None")
    /\ UNCHANGED <<books, file, constructed>>

\* search_books with `self.books = results` where it hands results on
SearchBooksKeepingResults(keyword) ==
    /\ constructed
    /\ LET results == search_results(books, keyword)
       IN  /\ last' = [Call("search_books", 0, <<>>, NoBook,
                            IF results # <<>> THEN "displayed" ELSE "nothing_found")
                       EXCEPT !.keyword = keyword, !.found = results]
           /\ books' = results
    /\ UNCHANGED <<file, constructed>>

\* Library.search_books(keyword)
SearchBooks(keyword) ==
    /\ constructed
    /\ LET results == search_results(books, keyword)
       IN  last' = IF results # <<>>
                   THEN LET out == display_books(books, GivenList(results))
                        IN  [Call("search_books", 0, <<>>, NoBook, out.outcome)
                             EXCEPT !.keyword = keyword, !.found = out.shown]
                   ELSE [Call("search_books", 0, <<>>, NoBook, "nothing_found")
                         EXCEPT !.keyword = keyword]
    /\ UNCHANGED <<books, file, constructed>>

\* Library.find_books(arg)
FindBooks(arg) ==
    /\ constructed
    /\ LET r == find_books(books, arg)
       IN  last' = [Call("find_books", 0, <<>>, NoBook, IF r.none THEN "None" ELSE "ok")
                    EXCEPT !.arg = arg, !.found = r.list]
    /\ UNCHANGED <<books, file, constructed>>

\* Library.display_books(arg)
DisplayBooks(arg) ==
    /\ constructed
    /\ LET out == display_books(books, arg)
       IN  last' = [Call("display_books", 0, <<>>, NoBook, out.outcome)
                    EXCEPT !.arg = arg, !.found = out.shown]
    /\ UNCHANGED <<books, file, constructed>>

(***************************************************************************)
(* Inputs.                                                                 *)
(***************************************************************************)
\* (title, author, year) arguments of add_book
AddInputs ==
    { <<(<<"a">>), (<<"b">>), 2024>>,
      <<(<<>>), (<<>>), 2023>> }

\* book_id arguments
IdInputs == 1..(MaxBooks + 1)

\* keyword arguments of search_books
KeywordInputs ==
    { <<"a">>, <<"B">>, <<"2", "0", "2", "4">>, <<"2", "0", "2">>, <<>>, <<"z">> }

\* books arguments of find_books and display_books: None, [] and a list of
\* one book
ListInputs ==
    { NoList, GivenList(<<>>),
      GivenList(<<Book(PyInt(7), PyStr(<<"z">>), PyStr(<<"z">>), PyInt(1999),
                       PyStr(AVAILABLE))>>) }

\* new_status arguments
StatusInputs == {AVAILABLE, CHECKED_OUT, <<"l", "o", "s", "t">>}

\* members of a JSON object with the five fields
Members(id, title, author, year, status) ==
    [k \in Keys |->
        CASE k = "id" -> id
          [] k = "title" -> title
          [] k = "author" -> author
          [] k = "year" -> year
          [] k = "status" -> status
          [] OTHER -> JAbsent]

\* elements a data file may hold: entries with the five fields, typed as
\* validate_dict asks
Valid1 ==
    JObject(Members(JNumber(1), JString(<<"a">>), JString(<<"b">>), JNumber(2024),
                    JString(AVAILABLE)))
Valid2 ==
    JObject(Members(JNumber(2), JString(<<"A", "b">>), JString(<<"b">>), JNumber(2023),
                    JString(CHECKED_OUT)))

\* the id of Valid1 again
Valid1Again ==
    JObject(Members(JNumber(1), JString(<<"c">>), JString(<<"b">>), JNumber(2023),
                    JString(AVAILABLE)))

\* true for the id
ValidTrueId ==
    JObject(Members(JBoolean(TRUE), JString(<<"a">>), JString(<<"b">>), JNumber(2024),
                    JString(AVAILABLE)))

\* a further key
ValidWithNote ==
    JObject([Members(JNumber(3), JString(<<"a">>), JString(<<"b">>), JNumber(2024),
                     JString(AVAILABLE)) EXCEPT !["note"] = JString(<<"x">>)])

\* 0 for the id, empty text for the title and the author
ValidZeroId ==
    JObject(Members(JNumber(0), JString(<<>>), JString(<<>>), JNumber(2024),
                    JString(CHECKED_OUT)))

\* {"id": 2}, the second entry of test_load_invalid_books
OnlyId == JObject([EmptyJObject EXCEPT !["id"] = JNumber(2)])

\* a number for the title
NumberTitle ==
    JObject(Members(JNumber(3), JNumber(5), JString(<<"b">>), JNumber(2024),
                    JString(AVAILABLE)))

\* a real for the year
RealYear ==
    JObject(Members(JNumber(3), JString(<<"a">>), JString(<<"b">>), JReal(2003),
                    JString(AVAILABLE)))

\* a status that is not permitted
LostStatus ==
    JObject(Members(JNumber(3), JString(<<"a">>), JString(<<"b">>), JNumber(2024),
                    JString(<<"l", "o", "s", "t">>)))

\* elements that are no objects: 5, null, "x", "id", [], ["id"]
NumberEntry == JEntry("number", 5, <<>>, <<>>, EmptyJObject)
NullEntry == JEntry("null", 0, <<>>, <<>>, EmptyJObject)
StringEntry == JEntry("string", 0, <<"x">>, <<>>, EmptyJObject)
StringIdEntry == JEntry("string", 0, <<"i", "d">>, <<>>, EmptyJObject)
ArrayEntry == JEntry("array", 0, <<>>, <<>>, EmptyJObject)
ArrayIdEntry == JEntry("array", 0, <<>>, <<(<<"i", "d">>)>>, EmptyJObject)

ObjectEntries ==
    { Valid1, Valid2, Valid1Again, ValidTrueId, ValidWithNote, ValidZeroId, OnlyId, NumberTitle,
      RealYear, LostStatus }
OtherEntries ==
    { NumberEntry, NullEntry, StringEntry, StringIdEntry, ArrayEntry, ArrayIdEntry }
AllEntries == ObjectEntries \cup OtherEntries

\* files that hold no JSON array
OddFiles ==
    { MissingFile, File("nonutf8", NoDoc), File("notjson", NoDoc),
      JsonFile(JDoc("number", 5, <<>>, <<>>, <<>>)),
      JsonFile(JDoc("null", 0, <<>>, <<>>, <<>>)),
      JsonFile(JDoc("string", 0, <<"a", "b">>, <<>>, <<>>)),
      JsonFile(JDoc("object", 0, <<>>, <<>>, <<>>)),
      JsonFile(JDoc("object", 0, <<>>, <<(<<"a">>)>>, <<>>)),
      JsonFile(JDoc("object", 0, <<>>, <<(<<"i", "d">>)>>, <<>>)) }

\* every array of at most MaxEntries elements
AllArrays == UNION { [1..n -> AllEntries] : n \in 0..MaxEntries }

\* the data files load_books is studied on
LoadFiles == OddFiles \cup { JsonFile(JArray(items)) : items \in AllArrays }

\* the data file before the first Library is constructed
InitFiles ==
    { MissingFile, File("notjson", NoDoc), JsonFile(JDoc("number", 5, <<>>, <<>>, <<>>)),
      JsonFile(JArray(<<>>)),
      JsonFile(JArray(<<Valid1>>)),
      JsonFile(JArray(<<Valid2, Valid1>>)),
      JsonFile(JArray(<<Valid1, OnlyId>>)),
      JsonFile(JArray(<<Valid1, Valid1Again>>)),
      JsonFile(JArray(<<ValidTrueId, ValidWithNote>>)),
      JsonFile(JArray(<<Valid1, NumberEntry>>)),
      JsonFile(JArray(<<StringEntry, LostStatus>>)) }

(***************************************************************************)
(* Specifications.  Spec is the library on a data file of InitFiles;       *)
(* SpecLoad is the construction of a Library on a data file of LoadFiles.  *)
(***************************************************************************)
InitOn(files) ==
    /\ file \in files
    /\ constructed = FALSE
    /\ books = <<>>
    /\ last = Call("none", 0, <<>>, NoBook, "ok")
    /\ pre = [books |-> <<>>, file |-> file]
    /\ deleted = {}
    /\ addRun = <<>>

Init == InitOn(InitFiles)

\* the calls a client of the library makes, with every argument and every
\* outcome of the write
AddBookCall == \E a \in AddInputs, io \in IoOutcomes : AddBook(a[1], a[2], a[3], io)
DeleteBookCall == \E book_id \in IdInputs, io \in IoOutcomes : DeleteBook(book_id, io)
UpdateStatusCall ==
    \E book_id \in IdInputs, new_status \in StatusInputs, io \in IoOutcomes :
        UpdateStatus(book_id, new_status, io)

FindBookByIdCall == \E book_id \in IdInputs : FindBookById(book_id)
SearchBooksCall == \E keyword \in KeywordInputs : SearchBooks(keyword)
FindBooksCall == \E arg \in ListInputs : FindBooks(arg)
DisplayBooksCall == \E arg \in ListInputs : DisplayBooks(arg)

\* pre records the collection and the file a call started from
TrackFrame ==
    /\ pre' = [books |-> books, file |-> file]
    /\ UNCHANGED <<deleted, addRun>>

\* deleted and addRun record the ids a Library object has deleted and the
\* ids its current run of add_book calls has returned
TrackIds ==
    /\ deleted' =
        CASE last'.op = "__init__" -> {}
          [] last'.op = "delete_book" /\ last'.outcome # "not_found" ->
                deleted \cup {last'.book.id.i}
          [] OTHER -> deleted
    /\ addRun' =
        CASE last'.op = "add_book" /\ last'.outcome = "ok" ->
                Append(addRun, last'.book.id.i)
          [] last'.op = "add_book" -> addRun
          [] OTHER -> <<>>
    /\ UNCHANGED pre

Next ==
    \/ Construct /\ TrackFrame
    \/ AddBookCall /\ TrackFrame
    \/ DeleteBookCall /\ TrackFrame
    \/ UpdateStatusCall /\ TrackFrame

NextIds ==
    \/ Construct /\ TrackIds
    \/ AddBookCall /\ TrackIds
    \/ DeleteBookCall /\ TrackIds

SpecIds == Init /\ [][NextIds]_vars

InitLoad == InitOn(LoadFiles)

NextLoad == Construct /\ TrackFrame

SpecLoad == InitLoad /\ [][NextLoad]_vars

\* the library with its query operations
NextQuery ==
    \/ Construct /\ TrackFrame
    \/ AddBookCall /\ TrackFrame
    \/ DeleteBookCall /\ TrackFrame
    \/ UpdateStatusCall /\ TrackFrame
    \/ FindBookByIdCall /\ TrackFrame
    \/ SearchBooksCall /\ TrackFrame
    \/ FindBooksCall /\ TrackFrame
    \/ DisplayBooksCall /\ TrackFrame

SpecQuery == Init /\ [][NextQuery]_vars

Spec == Init /\ [][Next]_vars

(***************************************************************************)
(* Properties.                                                             *)
(***************************************************************************)
Ids(bs) == {bs[n].id.i : n \in 1..Len(bs)}
HoldsId(bs, book_id) == \E n \in 1..Len(bs) : bs[n].id.i = book_id
FirstWithId(bs, book_id) ==
    CHOOSE n \in 1..Len(bs) :
        bs[n].id.i = book_id /\ \A m \in 1..(n - 1) : bs[m].id.i # book_id
Mutated == last.op \in {"add_book", "delete_book", "update_status"} /\ last.outcome = "ok"

\* the records the collection held before the add_book call that just ended
BeforeAdd == SubSeq(books, 1, Len(books) - 1)

C2_AddRunStrictlyIncreasing ==
    \A m, n \in 1..Len(addRun) : m < n => addRun[m] < addRun[n]

\* C2 witness: two add_book calls in a row have returned.
C2_Witness == Len(addRun) >= 2 /\ last.op = "add_book"

\* C3 as stated: no two records of the in-memory collection have the same id.
C3_IdsUnique ==
    \A m, n \in 1..Len(books) : m # n => ~PyEq(books[m].id, books[n].id)

\* C4: after add_book, delete_book or update_status has returned, load_books
\* on the data file returns the in-memory collection: the same records by
\* value in the same order.
C4_LoadAfterSaveGivesCollection ==
    Mutated => load_books(file) = [raised |-> "", books |-> books]

\* C4 witness: a mutation returned with two records in the collection, one of
\* them not in its initial status.
C4_Witness ==
    /\ Mutated
    /\ Len(books) = 2
    /\ \E n \in 1..2 : books[n].status = PyStr(CHECKED_OUT)

IsArrayFile(f) == f.kind = "json" /\ f.doc.j = "array"

\* C5 as stated: load_books on a file that decodes to an array of entries of
\* any shape completes.
C5_LoadNeverAborts ==
    (last.op = "__init__" /\ IsArrayFile(file)) => last.outcome = "ok"

\* an entry has the five fields, correctly typed (a JSON true or false loads
\* as a bool, which is an int), and a permitted status
EntryIsValid(e) ==
    /\ e.j = "object"
    /\ e.d["id"].j \in {"number", "boolean"}
    /\ e.d["year"].j \in {"number", "boolean"}
    /\ e.d["title"].j = "string"
    /\ e.d["author"].j = "string"
    /\ e.d["status"].j = "string"
    /\ e.d["status"].s \in {AVAILABLE, CHECKED_OUT}

\* the record of a valid entry
RecordOf(e) ==
    [id |-> JsonDecodeScalar(e.d["id"]), title |-> JsonDecodeScalar(e.d["title"]),
     author |-> JsonDecodeScalar(e.d["author"]), year |-> JsonDecodeScalar(e.d["year"]),
     status |-> JsonDecodeScalar(e.d["status"])]

RECURSIVE ValidRecords(_)
ValidRecords(items) ==
    IF items = <<>> THEN <<>>
    ELSE IF EntryIsValid(Head(items))
         THEN <<RecordOf(Head(items))>> \o ValidRecords(Tail(items))
         ELSE ValidRecords(Tail(items))

C7_NoSequenceGivesEmpty ==
    (last.op = "__init__" /\ ~IsArrayFile(pre.file)) =>
        /\ last.outcome = "ok"
        /\ books = <<>>
        /\ file = pre.file

\* C8: delete_book with an id no record has leaves the collection and the
\* file as they were and ends as "not found", with no exception.
C8_DeleteMissingIsNoOp ==
    (last.op = "delete_book" /\ ~HoldsId(pre.books, last.book_id)) =>
        /\ books = pre.books
        /\ file = pre.file
        /\ last.outcome = "not_found"
        /\ constructed

\* C8 witness: delete_book was called on a collection of two records with an
\* id neither has.
C8_Witness ==
    /\ last.op = "delete_book"
    /\ ~HoldsId(pre.books, last.book_id)
    /\ Len(pre.books) = 2

\* C9: update_status with an id a record has and a permitted status sets the
\* status of the (first) record with that id and changes nothing else of the
\* collection.
C9_UpdateStatusChangesOnlyStatus ==
    ( /\ last.op = "update_status"
      /\ HoldsId(pre.books, last.book_id)
      /\ last.new_status \in {AVAILABLE, CHECKED_OUT} ) =>
        LET n == FirstWithId(pre.books, last.book_id)
        IN  /\ Len(books) = Len(pre.books)
            /\ books[n].status = PyStr(last.new_status)
            /\ books[n].id = pre.books[n].id
            /\ books[n].title = pre.books[n].title
            /\ books[n].author = pre.books[n].author
            /\ books[n].year = pre.books[n].year
            /\ \A m \in 1..Len(books) : m # n => books[m] = pre.books[m]

\* C9 witness: update_status changed the status of one of two records that
\* had the same status.
C9_Witness ==
    /\ last.op = "update_status" /\ last.outcome = "ok"
    /\ Len(pre.books) = 2
    /\ pre.books[1].status = pre.books[2].status
    /\ books # pre.books

\* C10: update_status with an id no record has, or with a status that is not
\* permitted, leaves the collection and the file as they were and ends as
\* "not found" or "invalid status", with no exception.
C10_UpdateStatusRejects ==
    ( /\ last.op = "update_status"
      /\ \/ ~HoldsId(pre.books, last.book_id)
         \/ last.new_status \notin {AVAILABLE, CHECKED_OUT} ) =>
        /\ books = pre.books
        /\ file = pre.file
        /\ last.outcome =
            IF HoldsId(pre.books, last.book_id) THEN "invalid_status" ELSE "not_found"
        /\ constructed

\* C10 witness: update_status was called with a status that is not permitted
\* for the id of a record whose status is CHECKED_OUT.
C10_Witness ==
    /\ last.op = "update_status"
    /\ last.new_status \notin {AVAILABLE, CHECKED_OUT}
    /\ HoldsId(pre.books, last.book_id)
    /\ pre.books[FirstWithId(pre.books, last.book_id)].status = PyStr(CHECKED_OUT)

\* C11: add_book appends one record to the end of the collection, with the
\* id (greatest id of the collection, or 0 for an empty one) + 1, the title,
\* author and year given and the status AVAILABLE; the records it found are
\* unchanged and keep their order; the record it returns is the one appended.
C11_AddAppendsNewRecord ==
    (last.op = "add_book") =>
        LET new == books[Len(books)]
        IN  /\ Len(books) = Len(pre.books) + 1
            /\ SubSeq(books, 1, Len(pre.books)) = pre.books
            /\ new.id.t = "int"
            /\ \A x \in Ids(pre.books) : x < new.id.i
            /\ (new.id.i - 1) \in (Ids(pre.books) \cup {0})
            /\ pre.books = <<>> => new.id.i = 1
            /\ new.title = PyStr(last.title)
            /\ new.author = PyStr(last.author)
            /\ new.year = PyInt(last.year)
            /\ new.status = PyStr(AVAILABLE)
            /\ last.outcome = "ok" => last.book = new

\* C11 witness: add_book returned a record with the title and author of the
\* record the collection already held, whose id is not 1.
C11_Witness ==
    /\ last.op = "add_book" /\ last.outcome = "ok"
    /\ Len(books) = 2
    /\ books[1].title = books[2].title /\ books[1].author = books[2].author
    /\ books[1].id.i > 1

\* C12 as stated: every record of the collection has an id greater than 0, a
\* title that is not empty and an author that is not empty.
C12_RecordsWellFormed ==
    \A n \in 1..Len(books) :
        /\ books[n].id.i > 0
        /\ books[n].title.s # <<>>
        /\ books[n].author.s # <<>>

\* C13 as stated: find_books without an argument returns the collection in
\* its order, an empty sequence for an empty collection.
C13_ListAllReturnsSequence ==
    (last.op = "find_books" /\ ~last.arg.given) =>
        last.outcome = "ok" /\ last.found = books

\* C13, amended: find_books without an argument returns the collection in
\* its order when it holds a record, and None when it holds none.
C13_ListAllReturnsCollectionOrNone ==
    (last.op = "find_books" /\ ~last.arg.given) =>
        IF books = <<>> THEN last.outcome = "None"
        ELSE last.outcome = "ok" /\ last.found = books

\* C13 witness: find_books without an argument returned a collection of two
\* records with different ids.
C13_Witness ==
    /\ last.op = "find_books" /\ ~last.arg.given /\ last.outcome = "ok"
    /\ Len(last.found) = 2
    /\ last.found[1].id.i # last.found[2].id.i

\* bs without its n-th element
Without(bs, n) == SubSeq(bs, 1, n - 1) \o SubSeq(bs, n + 1, Len(bs))

\* C14: when the write of the file fails in add_book, delete_book or
\* update_status, the exception reaches the caller, the file is not written
\* a second time (it is as it was, or truncated), and the collection is the
\* one after the mutation: the record appended, removed or with its new status.
C14_FailedSaveKeepsMutation ==
    (last.outcome = "OSError") =>
        /\ last.op \in {"add_book", "delete_book", "update_status"}
        /\ ~constructed
        /\ file = pre.file \/ file = File("notjson", NoDoc)
        /\ last.op = "add_book" =>
                /\ books = Append(pre.books, last.book)
                /\ last.book.title = PyStr(last.title)
                /\ last.book.status = PyStr(AVAILABLE)
        /\ last.op = "delete_book" =>
                /\ HoldsId(pre.books, last.book_id)
                /\ books = Without(pre.books, FirstWithId(pre.books, last.book_id))
        /\ last.op = "update_status" =>
                /\ HoldsId(pre.books, last.book_id)
                /\ Len(books) = Len(pre.books)
                /\ books[FirstWithId(pre.books, last.book_id)].status
                        = PyStr(last.new_status)

\* C14 witness: the write of add_book failed with the file left as it was,
\* a file that does not hold the record appended.
C14_Witness ==
    /\ last.op = "add_book" /\ last.outcome = "OSError"
    /\ Len(books) = 2
    /\ file = pre.file
    /\ load_books(file).books = pre.books
PermittedStatus == {PyStr(AVAILABLE), PyStr(CHECKED_OUT)}

\* C15: the status of every record is AVAILABLE or CHECKED_OUT; the record
\* add_book makes is AVAILABLE; update_status can give either status to a
\* record (the first with its id), whatever its status; after a call of any
\* other method each record that was in the collection before is in it with
\* the status it had.
C15_StatusMachine ==
    /\ \A n \in 1..Len(books) : books[n].status \in PermittedStatus
    /\ last.op = "add_book" => books[Len(books)].status = PyStr(AVAILABLE)
    /\ constructed =>
            \A n \in 1..Len(books) : \A new_status \in {AVAILABLE, CHECKED_OUT} :
                FirstWithId(books, books[n].id.i) = n =>
                    ENABLED ( /\ UpdateStatus(books[n].id.i, new_status, "ok")
                              /\ TrackFrame
                              /\ books'[n].status = PyStr(new_status) )
    /\ last.op \notin {"none", "__init__", "update_status"} =>
            \A n \in 1..Len(books) :
                (\E m \in 1..Len(pre.books) : pre.books[m].id = books[n].id) =>
                    \E m \in 1..Len(pre.books) : pre.books[m] = books[n]

\* C15 witness: update_status has moved a record from CHECKED_OUT to
\* AVAILABLE while the other record of the collection is CHECKED_OUT.
C15_Witness ==
    /\ last.op = "update_status" /\ last.outcome = "ok"
    /\ Len(books) = 2
    /\ \E n \in 1..2 :
            /\ pre.books[n].status = PyStr(CHECKED_OUT)
            /\ books[n].status = PyStr(AVAILABLE)
            /\ books[3 - n].status = PyStr(CHECKED_OUT)

\* C16 as stated: delete_book with an id a record has removes exactly the
\* record with that id: the collection is one shorter, no record with that
\* id remains, the other records are unchanged and keep their order, and the
\* file written holds the result.
C16_DeleteRemovesTheRecord ==
    (last.op = "delete_book" /\ HoldsId(pre.books, last.book_id)) =>
        /\ Len(books) = Len(pre.books) - 1
        /\ ~HoldsId(books, last.book_id)
        /\ books = Without(pre.books, FirstWithId(pre.books, last.book_id))
        /\ last.outcome = "ok" => file = JsonFile(Serialize(books))

\* keyword occurs in text at some position, letters compared without case
OccursIgnoringCase(keyword, text) ==
    \E k \in 0..(Len(text) - Len(keyword)) :
        \A n \in 1..Len(keyword) : LowerChar(keyword[n]) = LowerChar(text[k + n])

\* the records search_books is to select
Selected(book, keyword) ==
    \/ OccursIgnoringCase(keyword, book.title.s)
    \/ OccursIgnoringCase(keyword, book.author.s)
    \/ book.year.t = "int" /\ book.year.i >= 0 /\ DigitsOf(book.year.i) = keyword

\* C17: search_books(keyword) selects exactly the records whose title or
\* author contains keyword, letters compared without case, or whose year in
\* decimal digits is keyword; it shows them in collection order; with no
\* match it reports "nothing found" and never "library is empty".
C17_SearchSelectsMatches ==
    last.op = "search_books" =>
        LET chosen == SelectSeq(books, LAMBDA book : Selected(book, last.keyword))
        IN  /\ last.found = chosen
            /\ last.outcome = (IF chosen = <<>> THEN "nothing_found" ELSE "displayed")
            /\ last.outcome # "library_empty"

\* a keyword in upper case selected the first of two records by its author in
\* lower case and left the second out
C17_Witness ==
    /\ last.op = "search_books" /\ last.outcome = "displayed"
    /\ last.keyword = <<"B">>
    /\ Len(books) = 2
    /\ last.found = <<books[1]>>
    /\ books[1].author.s = <<"b">>

\* C18: find_book_by_id(book_id) returns the first record of the collection
\* whose id is book_id when there is one, and None exactly when no record
\* has that id; after add_book returned a record, find_book_by_id of its id
\* finds that record.
C18_FindByIdFirstOrNone ==
    /\ last.op = "find_book_by_id" =>
            IF HoldsId(books, last.book_id)
            THEN /\ last.outcome = "ok"
                 /\ last.book.id.i = last.book_id
                 /\ last.book = books[FirstWithId(books, last.book_id)]
            ELSE /\ last.outcome = "None"
                 /\ last.book = NoBook
    /\ (last.op = "add_book" /\ last.outcome = "ok") =>
            /\ find_book_by_id(books, last.book.id.i) = Len(books)
            /\ books[Len(books)] = last.book

\* find_book_by_id returned the second of two records, passing over the first
C18_Witness ==
    /\ last.op = "find_book_by_id" /\ last.outcome = "ok"
    /\ Len(books) = 2
    /\ last.book = books[2]
    /\ books[1] # books[2]

\* C19 as stated: the file keeps the content it had as long as no add_book,
\* delete_book or update_status has succeeded.
C19_FileKeptUntilMutationSucceeds ==
    (last.op # "none" /\ ~Mutated) => file = pre.file

\* C19, amended: a call that does not write leaves the file as it was; a
\* write that fails leaves it as it was or truncated, with none of its
\* entries; an add_book, delete_book or update_status that succeeds leaves in
\* the file the serialization of the collection and nothing else, one valid
\* entry for each record, from which load_books gives the collection back.
C19_FileKeptUntilMutationWrites ==
    /\ (last.op # "none" /\ last.outcome \notin {"ok", "OSError"}) => file = pre.file
    /\ last.op = "__init__" => file = pre.file
    /\ last.outcome = "OSError" => file \in {pre.file, File("notjson", NoDoc)}
    /\ Mutated =>
            /\ file = JsonFile(Serialize(books))
            /\ Len(file.doc.items) = Len(books)
            /\ \A n \in 1..Len(books) :
                    /\ EntryIsValid(file.doc.items[n])
                    /\ file.doc.items[n].d["note"] = JAbsent
            /\ load_books(file) = [raised |-> "", books |-> books]

\* C19 witness: a mutation succeeded on a file from which load_books had
\* skipped an entry (it held more entries than the collection had records),
\* and the file now holds as many entries as the collection has records.
C19_Witness ==
    /\ Mutated
    /\ IsArrayFile(pre.file)
    /\ Len(pre.file.doc.items) > Len(pre.books)
    /\ last.op = "add_book"
    /\ Len(file.doc.items) = Len(books)
QueryOps == {"find_book_by_id", "search_books", "find_books", "display_books"}

\* C20: find_book_by_id, search_books, find_books and display_books leave the
\* collection (its records, their fields, their order) and the file as they
\* were, for every argument, and raise nothing.
C20_QueriesChangeNothing ==
    last.op \in QueryOps =>
        /\ books = pre.books
        /\ file = pre.file
        /\ constructed

\* C20 witness: search_books showed one of the two records of the collection.
C20_Witness ==
    /\ last.op = "search_books"
    /\ Len(pre.books) = 2
    /\ Len(last.found) = 1
====
